---- MODULE Spec2Model ----
(***************************************************************************)
(* A model of tusd's bounded store (limitedstore.LimitedStore) and of its  *)
(* in-memory locker (memorylocker.MemoryLocker).                           *)
(*                                                                         *)
(* LimitedStore: goroutines call NewUpload and Terminate; every step of    *)
(* the two methods between mutex.Lock() and the deferred mutex.Unlock()    *)
(* is an action.  The wrapped data store is the environment: each of its   *)
(* calls may fail, and a successful NewUpload returns an id that no        *)
(* upload existing in the data store has.                                  *)
(*                                                                         *)
(* MemoryLocker: goroutines call LockUpload and UnlockUpload; the locker   *)
(* holds no mutex, so the read of the map and the write to it are two      *)
(* steps that other goroutines interleave with.                            *)
(*                                                                         *)
(* LimitedStore's pass-throughs (GetReader, LockUpload, UnlockUpload,      *)
(* FinishUpload, ConcatUploads): one action each, a type assertion on the  *)
(* wrapped data store and then the forwarded call or a fixed return.       *)
(*                                                                         *)
(* Handler: NewHandler builds the routes from the interfaces of            *)
(* Config.DataStore; ServeHTTP runs the middleware and then the mux.       *)
(***************************************************************************)
EXTENDS Integers, Sequences, FiniteSets, TLC

\* ------------------------------------------------------------ bounds
NumIds == 3
StoreSize == 3

MaxSize == StoreSize + 1
Ids == 1..NumIds
Sizes == 0..MaxSize
Procs == {"g1", "g2"}

NoProc == "none"
NoId == 0
nil == "nil"
ErrTerminate == "ErrTerminate"
ErrNewUpload == "ErrNewUpload"
ErrFileLocked == "ErrFileLocked"
ErrNotImplemented == "ErrNotImplemented"
ErrBackend == "ErrBackend"

VARIABLES
    uploads,        \* LimitedStore.uploads: id -> size
    usedSize,       \* LimitedStore.usedSize
    mutex,          \* LimitedStore.mutex: the goroutine holding it, or NoProc
    backend,        \* ids of the uploads existing in the wrapped data store
    pc,             \* per goroutine: where it stands in NewUpload / Terminate
    info,           \* per goroutine: info.Size of its NewUpload call
    tid,            \* per goroutine: id argument of its Terminate call
    sortedUploads,  \* per goroutine: ensureSpace's sortedUploads
    idx,            \* per goroutine: position of ensureSpace's range loop
    err,            \* per goroutine: the error its call returns
    ret,            \* per goroutine: the id its NewUpload call returns
    pre,            \* per goroutine: uploads and usedSize when it took the mutex
    calls,          \* per goroutine: the data store calls its call has made
    locks,          \* MemoryLocker.locks: the keys of the map
    lpc,            \* per goroutine: where it stands in LockUpload / UnlockUpload
    lid,            \* per goroutine: id argument of its locker call
    found,          \* per goroutine: ok of LockUpload's map lookup
    lerr,           \* per goroutine: the error its locker call returns
    holders,        \* <<goroutine, id>>: LockUpload(id) returned nil to it and
                    \* no UnlockUpload(id) has run since
    crashed,        \* the runtime stopped the process: concurrent map access
    caps,           \* the optional interfaces the wrapped data store implements
    pt,             \* the last pass-through call of LimitedStore and its result
    config,         \* the caller's tusd.Config: its DataStore's interfaces, MaxSize
    handler,        \* what NewHandler returned
    req,            \* the last request given to ServeHTTP
    resp            \* the response to it

storeVars == <<uploads, usedSize, mutex, backend, pc, info, tid, sortedUploads,
               idx, err, ret, pre, calls>>
lockerVars == <<locks, lpc, lid, found, lerr, holders, crashed>>
passVars == <<caps, pt>>
handlerVars == <<config, handler, req, resp>>
otherVars == <<passVars, handlerVars>>
vars == <<storeVars, lockerVars, otherVars>>

ledger == <<uploads, usedSize>>
locals == <<info, tid, sortedUploads, idx, err, ret>>

\* ------------------------------------------------------------ helpers

EmptyMap == [k \in {} |-> 0]

RECURSIVE Sum(_)
Sum(u) ==
    IF DOMAIN u = {} THEN 0
    ELSE LET k == CHOOSE x \in DOMAIN u : TRUE
         IN u[k] + Sum([j \in DOMAIN u \ {k} |-> u[j]])

\* store.uploads[id]: a missing key reads as the zero value
SizeOf(u, id) == IF id \in DOMAIN u THEN u[id] ELSE 0

\* delete(store.uploads, id)
Delete(u, id) == [k \in DOMAIN u \ {id} |-> u[k]]

\* store.uploads[id] = size
Put(u, id, size) == [k \in DOMAIN u \cup {id} |-> IF k = id THEN size ELSE u[k]]

\* the comparison written as "strictly below the capacity"
fitsStrict(used, size) == (used + size) < StoreSize

\* the comparison with the size of the request left out
fitsIgnoringSize(used, size) == used <= StoreSize

\* (store.usedSize + size) <= store.StoreSize
fits(used, size) == (used + size) <= StoreSize

\* the pairs ensureSpace copies out of the map
pairs(u) == {[key |-> k, value |-> u[k]] : k \in DOMAIN u}

\* the comparator written the other way round
LessFlipped(p, i, j) == p[i].value > p[j].value

\* pairlist.Less
Less(p, i, j) == p[i].value < p[j].value

\* sort.Reverse(p).Less(i, j)
ReverseLess(p, i, j) == Less(p, j, i)

\* the list left in the order the map iteration gave it
IsSortedAny(s) == TRUE

\* what sort.Sort guarantees of its result: no element is Less than one before it
IsSorted(s) ==
    \A i \in 1..Len(s) : \A j \in 1..Len(s) : i < j => ~ReverseLess(s, j, i)

\* sort.Sort(sort.Reverse(sortedUploads)): any ordering of the pairs that is
\* sorted (map iteration order is random and the sort is not stable)
SortReverse(u) ==
    {s \in [1..Cardinality(DOMAIN u) -> pairs(u)] :
        /\ \A i \in 1..Len(s) : \A j \in 1..Len(s) : i # j => s[i] # s[j]
        /\ IsSorted(s)}

\* terminate without "store.usedSize -= size"
terminateNoDecrement(id, ok) ==
    IF ~ok
    THEN [uploads |-> uploads, usedSize |-> usedSize, err |-> ErrTerminate]
    ELSE [uploads |-> Delete(uploads, id), usedSize |-> usedSize, err |-> nil]

\* terminate with the bookkeeping done before the error is looked at
terminateBeforeCheck(id, ok) ==
    [uploads |-> Delete(uploads, id),
     usedSize |-> usedSize - SizeOf(uploads, id),
     err |-> IF ok THEN nil ELSE ErrTerminate]

\* terminate without "delete(store.uploads, id)"
terminateKeepEntry(id, ok) ==
    IF ~ok
    THEN [uploads |-> uploads, usedSize |-> usedSize, err |-> ErrTerminate]
    ELSE [uploads |-> uploads,
          usedSize |-> usedSize - SizeOf(uploads, id),
          err |-> nil]

\* terminate refusing an id the store does not track
terminateStrict(id, ok) ==
    IF ~ok
    THEN [uploads |-> uploads, usedSize |-> usedSize, err |-> ErrTerminate]
    ELSE IF id \notin DOMAIN uploads
    THEN [uploads |-> uploads, usedSize |-> usedSize, err |-> "ErrNotFound"]
    ELSE [uploads |-> Delete(uploads, id),
          usedSize |-> usedSize - SizeOf(uploads, id),
          err |-> nil]

\* store.terminate(id), given whether the data store's Terminate succeeds
terminate(id, ok) ==
    IF ~ok
    THEN [uploads |-> uploads, usedSize |-> usedSize, err |-> ErrTerminate]
    ELSE [uploads |-> Delete(uploads, id),
          usedSize |-> usedSize - SizeOf(uploads, id),
          err |-> nil]

\* ensureSpace refusing when the exhausted list did not free enough
ensureSpaceExhaustedStrict(used, size) ==
    IF fits(used, size) THEN nil ELSE "ErrNoSpace"

\* ensureSpace: the "return nil" after the range loop
ensureSpaceExhausted(used, size) == nil

\* NewUpload's bookkeeping with the size added before the error is looked at
recordBeforeCheck(id, size, e) ==
    IF e # nil
    THEN [uploads |-> uploads, usedSize |-> usedSize + size]
    ELSE [uploads |-> Put(uploads, id, size), usedSize |-> usedSize + size]

\* NewUpload after the data store's NewUpload returned (id, e): the early
\* return on an error, else usedSize += info.Size; uploads[id] = info.Size
record(id, size, e) ==
    IF e # nil
    THEN [uploads |-> uploads, usedSize |-> usedSize]
    ELSE [uploads |-> Put(uploads, id, size), usedSize |-> usedSize + size]

\* the ids the data store may give a new upload: unique among its uploads
FreshIds == Ids \ backend

\* one call of the wrapped data store and whether it succeeded
Call(op, id, ok) == [op |-> op, id |-> id, ok |-> ok]

\* the ledger remembered for a goroutine that is not inside a call
NoPre == [uploads |-> EmptyMap, usedSize |-> 0]

\* ------------------------------------------------------------ initial state

\* limitedstore.New: an empty map, usedSize 0, a free mutex
InitStore ==
    /\ uploads = EmptyMap
    /\ usedSize = 0
    /\ mutex = NoProc
    /\ backend = {}
    /\ pc = [p \in Procs |-> "idle"]
    /\ info = [p \in Procs |-> 0]
    /\ tid = [p \in Procs |-> NoId]
    /\ sortedUploads = [p \in Procs |-> <<>>]
    /\ idx = [p \in Procs |-> 0]
    /\ err = [p \in Procs |-> nil]
    /\ ret = [p \in Procs |-> NoId]
    /\ pre = [p \in Procs |-> NoPre]
    /\ calls = [p \in Procs |-> <<>>]

\* memorylocker.NewMemoryLocker: an empty map
InitLocker ==
    /\ locks = {}
    /\ lpc = [p \in Procs |-> "idle"]
    /\ lid = [p \in Procs |-> NoId]
    /\ found = [p \in Procs |-> FALSE]
    /\ lerr = [p \in Procs |-> nil]
    /\ holders = {}
    /\ crashed = FALSE

\* no pass-through call yet; the wrapped data store has none of the optional
\* interfaces
InitPass ==
    /\ caps = {}
    /\ pt = [op |-> "none"]

\* no handler yet; a Config with a plain data store and no size limit
InitHandler ==
    /\ config = [DataStore |-> {}, MaxSize |-> 0]
    /\ handler = [built |-> FALSE, err |-> nil]
    /\ req = [method |-> "none"]
    /\ resp = [code |-> "none"]

Init == InitStore /\ InitLocker /\ InitPass /\ InitHandler

\* ------------------------------------------------------------ NewUpload

\* a goroutine calls LimitedStore.NewUpload(info)
CallNewUpload(p) ==
    /\ pc[p] = "idle"
    /\ \E size \in Sizes : info' = [info EXCEPT ![p] = size]
    /\ pc' = [pc EXCEPT ![p] = "nu_lock"]
    /\ UNCHANGED <<ledger, mutex, backend, tid, sortedUploads, idx, err, ret, pre, calls, lockerVars, otherVars>>

\* NewUpload entering without waiting for the mutex
NewUpload_LockNoWait(p) ==
    /\ pc[p] = "nu_lock"
    /\ mutex' = p
    /\ pre' = [pre EXCEPT ![p] = [uploads |-> uploads, usedSize |-> usedSize]]
    /\ pc' = [pc EXCEPT ![p] = "nu_ensure"]
    /\ UNCHANGED <<ledger, backend, locals, calls, lockerVars, otherVars>>

\* store.mutex.Lock()
NewUpload_Lock(p) ==
    /\ pc[p] = "nu_lock"
    /\ mutex = NoProc
    /\ mutex' = p
    /\ pre' = [pre EXCEPT ![p] = [uploads |-> uploads, usedSize |-> usedSize]]
    /\ pc' = [pc EXCEPT ![p] = "nu_ensure"]
    /\ UNCHANGED <<ledger, backend, locals, calls, lockerVars, otherVars>>

\* ensureSpace: the first check, and the sorted copy of the map
ensureSpace_Check(p) ==
    /\ pc[p] = "nu_ensure"
    /\ IF fits(usedSize, info[p])
       THEN /\ pc' = [pc EXCEPT ![p] = "nu_create"]
            /\ UNCHANGED <<sortedUploads, idx>>
       ELSE /\ \E s \in SortReverse(uploads) :
                   sortedUploads' = [sortedUploads EXCEPT ![p] = s]
            /\ idx' = [idx EXCEPT ![p] = 1]
            /\ pc' = [pc EXCEPT ![p] = "nu_loop"]
    /\ UNCHANGED <<ledger, mutex, backend, info, tid, err, ret, pre, calls, lockerVars, otherVars>>

\* ensureSpace: one iteration of the range loop up to the error check, or
\* the return after the list is exhausted
ensureSpace_Loop(p) ==
    /\ pc[p] = "nu_loop"
    /\ IF idx[p] > Len(sortedUploads[p])
       THEN LET e == ensureSpaceExhausted(usedSize, info[p])
            IN /\ IF e # nil
                  THEN /\ err' = [err EXCEPT ![p] = e]
                       /\ pc' = [pc EXCEPT ![p] = "nu_ret"]
                  ELSE /\ err' = err
                       /\ pc' = [pc EXCEPT ![p] = "nu_create"]
               /\ UNCHANGED <<ledger, backend, calls>>
       ELSE \E ok \in BOOLEAN :
              LET id == sortedUploads[p][idx[p]].key
                  r  == terminate(id, ok)
              IN /\ uploads' = r.uploads
                 /\ usedSize' = r.usedSize
                 /\ backend' = IF ok THEN backend \ {id} ELSE backend
                 /\ calls' = [calls EXCEPT ![p] = Append(@, Call("Terminate", id, ok))]
                 /\ IF r.err # nil
                    THEN /\ err' = [err EXCEPT ![p] = r.err]
                         /\ pc' = [pc EXCEPT ![p] = "nu_ret"]
                    ELSE /\ err' = err
                         /\ pc' = [pc EXCEPT ![p] = "nu_recheck"]
    /\ UNCHANGED <<mutex, info, tid, sortedUploads, idx, ret, pre, lockerVars, otherVars>>

\* ensureSpace: the check after a termination
ensureSpace_Recheck(p) ==
    /\ pc[p] = "nu_recheck"
    /\ IF fits(usedSize, info[p])
       THEN /\ pc' = [pc EXCEPT ![p] = "nu_create"]
            /\ idx' = idx
       ELSE /\ pc' = [pc EXCEPT ![p] = "nu_loop"]
            /\ idx' = [idx EXCEPT ![p] = @ + 1]
    /\ UNCHANGED <<ledger, mutex, backend, info, tid, sortedUploads, err, ret, pre, calls, lockerVars, otherVars>>

\* store.TerminaterDataStore.NewUpload(info) and its error check
NewUpload_Create(p) ==
    /\ pc[p] = "nu_create"
    /\ \/ LET r == record(NoId, info[p], ErrNewUpload)
          IN /\ uploads' = r.uploads
             /\ usedSize' = r.usedSize
             /\ calls' = [calls EXCEPT ![p] = Append(@, Call("NewUpload", NoId, FALSE))]
             /\ err' = [err EXCEPT ![p] = ErrNewUpload]
             /\ pc' = [pc EXCEPT ![p] = "nu_ret"]
             /\ UNCHANGED <<backend, ret>>
       \/ \E id \in FreshIds :
          /\ backend' = backend \cup {id}
          /\ calls' = [calls EXCEPT ![p] = Append(@, Call("NewUpload", id, TRUE))]
          /\ ret' = [ret EXCEPT ![p] = id]
          /\ pc' = [pc EXCEPT ![p] = "nu_record"]
          /\ UNCHANGED <<ledger, err>>
    /\ UNCHANGED <<mutex, info, tid, sortedUploads, idx, pre, lockerVars, otherVars>>

\* store.usedSize += info.Size; store.uploads[id] = info.Size
NewUpload_Record(p) ==
    /\ pc[p] = "nu_record"
    /\ LET r == record(ret[p], info[p], nil)
       IN /\ uploads' = r.uploads
          /\ usedSize' = r.usedSize
    /\ pc' = [pc EXCEPT ![p] = "nu_ret"]
    /\ UNCHANGED <<mutex, backend, locals, pre, calls, lockerVars, otherVars>>

\* the return of NewUpload with the mutex released on the success path only
NewUpload_ReturnKeepLock(p) ==
    /\ pc[p] = "nu_ret"
    /\ mutex = p
    /\ err[p] = nil
    /\ mutex' = NoProc
    /\ pc' = [pc EXCEPT ![p] = "idle"]
    /\ info' = [info EXCEPT ![p] = 0]
    /\ sortedUploads' = [sortedUploads EXCEPT ![p] = <<>>]
    /\ idx' = [idx EXCEPT ![p] = 0]
    /\ err' = [err EXCEPT ![p] = nil]
    /\ ret' = [ret EXCEPT ![p] = NoId]
    /\ pre' = [pre EXCEPT ![p] = NoPre]
    /\ calls' = [calls EXCEPT ![p] = <<>>]
    /\ UNCHANGED <<ledger, backend, tid, lockerVars, otherVars>>

\* the return of NewUpload: the deferred store.mutex.Unlock()
NewUpload_Return(p) ==
    /\ pc[p] = "nu_ret"
    /\ mutex = p
    /\ mutex' = NoProc
    /\ pc' = [pc EXCEPT ![p] = "idle"]
    /\ info' = [info EXCEPT ![p] = 0]
    /\ sortedUploads' = [sortedUploads EXCEPT ![p] = <<>>]
    /\ idx' = [idx EXCEPT ![p] = 0]
    /\ err' = [err EXCEPT ![p] = nil]
    /\ ret' = [ret EXCEPT ![p] = NoId]
    /\ pre' = [pre EXCEPT ![p] = NoPre]
    /\ calls' = [calls EXCEPT ![p] = <<>>]
    /\ UNCHANGED <<ledger, backend, tid, lockerVars, otherVars>>

\* ------------------------------------------------------------ Terminate

\* a goroutine calls LimitedStore.Terminate(id)
CallTerminate(p) ==
    /\ pc[p] = "idle"
    /\ \E id \in Ids : tid' = [tid EXCEPT ![p] = id]
    /\ pc' = [pc EXCEPT ![p] = "t_lock"]
    /\ UNCHANGED <<ledger, mutex, backend, info, sortedUploads, idx, err, ret, pre, calls, lockerVars, otherVars>>

\* store.mutex.Lock()
Terminate_Lock(p) ==
    /\ pc[p] = "t_lock"
    /\ mutex = NoProc
    /\ mutex' = p
    /\ pre' = [pre EXCEPT ![p] = [uploads |-> uploads, usedSize |-> usedSize]]
    /\ pc' = [pc EXCEPT ![p] = "t_terminate"]
    /\ UNCHANGED <<ledger, backend, locals, calls, lockerVars, otherVars>>

\* return store.terminate(id)
Terminate_terminate(p) ==
    /\ pc[p] = "t_terminate"
    /\ \E ok \in BOOLEAN :
         LET r == terminate(tid[p], ok)
         IN /\ uploads' = r.uploads
            /\ usedSize' = r.usedSize
            /\ backend' = IF ok THEN backend \ {tid[p]} ELSE backend
            /\ calls' = [calls EXCEPT ![p] = Append(@, Call("Terminate", tid[p], ok))]
            /\ err' = [err EXCEPT ![p] = r.err]
    /\ pc' = [pc EXCEPT ![p] = "t_ret"]
    /\ UNCHANGED <<mutex, info, tid, sortedUploads, idx, ret, pre, lockerVars, otherVars>>

\* the return of Terminate: the deferred store.mutex.Unlock()
Terminate_Return(p) ==
    /\ pc[p] = "t_ret"
    /\ mutex = p
    /\ mutex' = NoProc
    /\ pc' = [pc EXCEPT ![p] = "idle"]
    /\ tid' = [tid EXCEPT ![p] = NoId]
    /\ err' = [err EXCEPT ![p] = nil]
    /\ pre' = [pre EXCEPT ![p] = NoPre]
    /\ calls' = [calls EXCEPT ![p] = <<>>]
    /\ UNCHANGED <<ledger, backend, info, sortedUploads, idx, ret, lockerVars, otherVars>>

\* ------------------------------------------------------------ MemoryLocker

\* the lookup with its result read the wrong way round
isLockedInverted(l, id) == id \notin l

\* _, ok := locker.locks[id]
isLocked(l, id) == id \in l

\* a goroutine calls MemoryLocker.LockUpload(id)
CallLockUpload(p) ==
    /\ ~crashed
    /\ lpc[p] = "idle"
    /\ \E id \in Ids : lid' = [lid EXCEPT ![p] = id]
    /\ lpc' = [lpc EXCEPT ![p] = "l_check"]
    /\ UNCHANGED <<locks, found, lerr, holders, crashed, storeVars, otherVars>>

\* LockUpload: the lookup, and the return of ErrFileLocked
LockUpload_Check(p) ==
    /\ ~crashed
    /\ lpc[p] = "l_check"
    /\ found' = [found EXCEPT ![p] = isLocked(locks, lid[p])]
    /\ IF found'[p]
       THEN /\ lerr' = [lerr EXCEPT ![p] = ErrFileLocked]
            /\ lpc' = [lpc EXCEPT ![p] = "l_ret"]
       ELSE /\ lerr' = lerr
            /\ lpc' = [lpc EXCEPT ![p] = "l_set"]
    /\ UNCHANGED <<locks, lid, holders, crashed, storeVars, otherVars>>

\* LockUpload: locker.locks[id] = true; return nil
LockUpload_Set(p) ==
    /\ ~crashed
    /\ lpc[p] = "l_set"
    /\ locks' = locks \cup {lid[p]}
    /\ lerr' = [lerr EXCEPT ![p] = nil]
    /\ holders' = holders \cup {<<p, lid[p]>>}
    /\ lpc' = [lpc EXCEPT ![p] = "l_ret"]
    /\ UNCHANGED <<lid, found, crashed, storeVars, otherVars>>

\* a goroutine calls MemoryLocker.UnlockUpload(id)
CallUnlockUpload(p) ==
    /\ ~crashed
    /\ lpc[p] = "idle"
    /\ \E id \in Ids : lid' = [lid EXCEPT ![p] = id]
    /\ lpc' = [lpc EXCEPT ![p] = "u_delete"]
    /\ UNCHANGED <<locks, found, lerr, holders, crashed, storeVars, otherVars>>

\* UnlockUpload releasing only a lock its caller holds
UnlockUpload_DeleteOwnerOnly(p) ==
    /\ ~crashed
    /\ lpc[p] = "u_delete"
    /\ IF <<p, lid[p]>> \in holders
       THEN /\ locks' = locks \ {lid[p]}
            /\ lerr' = [lerr EXCEPT ![p] = nil]
            /\ holders' = {h \in holders : h[2] # lid[p]}
       ELSE /\ lerr' = [lerr EXCEPT ![p] = "ErrNotLocked"]
            /\ UNCHANGED <<locks, holders>>
    /\ lpc' = [lpc EXCEPT ![p] = "u_ret"]
    /\ UNCHANGED <<lid, found, crashed, storeVars, otherVars>>

\* UnlockUpload: delete(locker.locks, id); return nil
UnlockUpload_Delete(p) ==
    /\ ~crashed
    /\ lpc[p] = "u_delete"
    /\ locks' = locks \ {lid[p]}
    /\ lerr' = [lerr EXCEPT ![p] = nil]
    /\ holders' = {h \in holders : h[2] # lid[p]}
    /\ lpc' = [lpc EXCEPT ![p] = "u_ret"]
    /\ UNCHANGED <<lid, found, crashed, storeVars, otherVars>>

\* the caller has the result of its LockUpload or UnlockUpload call
Locker_Return(p) ==
    /\ ~crashed
    /\ lpc[p] \in {"l_ret", "u_ret"}
    /\ lpc' = [lpc EXCEPT ![p] = "idle"]
    /\ lid' = [lid EXCEPT ![p] = NoId]
    /\ found' = [found EXCEPT ![p] = FALSE]
    /\ lerr' = [lerr EXCEPT ![p] = nil]
    /\ UNCHANGED <<locks, holders, crashed, storeVars, otherVars>>

\* two goroutines are at the map at once and one of them writes: the map is
\* not guarded, and the runtime may stop the process (fatal error: concurrent
\* map writes / concurrent map read and map write)
Locker_Fatal ==
    /\ ~crashed
    /\ \E p \in Procs : \E q \in Procs \ {p} :
          /\ lpc[p] \in {"l_set", "u_delete"}
          /\ lpc[q] \in {"l_check", "l_set", "u_delete"}
    /\ crashed' = TRUE
    /\ UNCHANGED <<locks, lpc, lid, found, lerr, holders, storeVars, otherVars>>

NextLocker ==
    \/ \E p \in Procs :
        \/ CallLockUpload(p)
        \/ LockUpload_Check(p)
        \/ LockUpload_Set(p)
        \/ CallUnlockUpload(p)
        \/ UnlockUpload_Delete(p)
        \/ Locker_Return(p)
    \/ Locker_Fatal

SpecLocker == Init /\ [][NextLocker]_vars

\* ------------------------------------------------------------ specification

Next ==
    \E p \in Procs :
        \/ CallNewUpload(p)
        \/ NewUpload_Lock(p)
        \/ ensureSpace_Check(p)
        \/ ensureSpace_Loop(p)
        \/ ensureSpace_Recheck(p)
        \/ NewUpload_Create(p)
        \/ NewUpload_Record(p)
        \/ NewUpload_Return(p)
        \/ CallTerminate(p)
        \/ Terminate_Lock(p)
        \/ Terminate_terminate(p)
        \/ Terminate_Return(p)

Spec == Init /\ [][Next]_vars

\* the steps of a goroutine that holds the mutex; each of them is a piece of
\* straight-line code or a data store call, which is taken to return
Running(p) ==
    \/ ensureSpace_Check(p)
    \/ ensureSpace_Loop(p)
    \/ ensureSpace_Recheck(p)
    \/ NewUpload_Create(p)
    \/ NewUpload_Record(p)
    \/ NewUpload_Return(p)
    \/ Terminate_terminate(p)
    \/ Terminate_Return(p)

\* a goroutine inside a call keeps running
SpecFair == Spec /\ \A p \in Procs : WF_vars(Running(p))

\* ------------------------------------------------------------ pass-throughs

\* the optional interfaces of a data store that LimitedStore asserts
Capabilities == {"GetReaderDataStore", "LockerDataStore", "FinisherDataStore", "ConcaterDataStore"}

NoReader == "nil"
Reader == "reader"
NoCall == [op |-> "none"]
NotForwarded == [val |-> NoReader, err |-> "none"]

\* what the wrapped data store's GetReader may return
ReaderResults == {[val |-> Reader, err |-> nil], [val |-> NoReader, err |-> ErrBackend]}

\* what a call of the wrapped data store that returns only an error may return
ErrorResults == {[val |-> NoReader, err |-> nil], [val |-> NoReader, err |-> ErrBackend]}

\* the list of partial uploads given to ConcatUploads
PartialLists == {<<>>} \cup {<<i>> : i \in Ids}

\* GetReader: forward, or (nil, ErrNotImplemented)
GetReaderResult(c, b) ==
    IF "GetReaderDataStore" \in c
    THEN [forwarded |-> TRUE, sent |-> b, val |-> b.val, err |-> b.err]
    ELSE [forwarded |-> FALSE, sent |-> NotForwarded, val |-> NoReader, err |-> ErrNotImplemented]

\* LockUpload answering "not implemented" without the capability
LockUploadResultNotImplemented(c, b) ==
    IF "LockerDataStore" \in c
    THEN [forwarded |-> TRUE, sent |-> b, val |-> NoReader, err |-> b.err]
    ELSE [forwarded |-> FALSE, sent |-> NotForwarded, val |-> NoReader, err |-> ErrNotImplemented]

\* LockUpload: forward, or nil
LockUploadResult(c, b) ==
    IF "LockerDataStore" \in c
    THEN [forwarded |-> TRUE, sent |-> b, val |-> NoReader, err |-> b.err]
    ELSE [forwarded |-> FALSE, sent |-> NotForwarded, val |-> NoReader, err |-> nil]

\* UnlockUpload: forward, or nil
UnlockUploadResult(c, b) ==
    IF "LockerDataStore" \in c
    THEN [forwarded |-> TRUE, sent |-> b, val |-> NoReader, err |-> b.err]
    ELSE [forwarded |-> FALSE, sent |-> NotForwarded, val |-> NoReader, err |-> nil]

\* FinishUpload: forward, or nil
FinishUploadResult(c, b) ==
    IF "FinisherDataStore" \in c
    THEN [forwarded |-> TRUE, sent |-> b, val |-> NoReader, err |-> b.err]
    ELSE [forwarded |-> FALSE, sent |-> NotForwarded, val |-> NoReader, err |-> nil]

\* ConcatUploads: forward, or ErrNotImplemented
ConcatUploadsResult(c, b) ==
    IF "ConcaterDataStore" \in c
    THEN [forwarded |-> TRUE, sent |-> b, val |-> NoReader, err |-> b.err]
    ELSE [forwarded |-> FALSE, sent |-> NotForwarded, val |-> NoReader, err |-> ErrNotImplemented]

PassCall(op, id, partials, r) ==
    [op |-> op, id |-> id, partials |-> partials, forwarded |-> r.forwarded,
     sent |-> r.sent, val |-> r.val, err |-> r.err]

\* what a pass-through leaves alone: everything but the record of the call
PassFrame == UNCHANGED <<caps, storeVars, lockerVars, handlerVars>>

Store_GetReader ==
    \E id \in Ids, b \in ReaderResults :
        /\ pt = NoCall
        /\ pt' = PassCall("GetReader", id, <<>>, GetReaderResult(caps, b))
        /\ PassFrame

Store_LockUpload ==
    \E id \in Ids, b \in ErrorResults :
        /\ pt = NoCall
        /\ pt' = PassCall("LockUpload", id, <<>>, LockUploadResult(caps, b))
        /\ PassFrame

Store_UnlockUpload ==
    \E id \in Ids, b \in ErrorResults :
        /\ pt = NoCall
        /\ pt' = PassCall("UnlockUpload", id, <<>>, UnlockUploadResult(caps, b))
        /\ PassFrame

Store_FinishUpload ==
    \E id \in Ids, b \in ErrorResults :
        /\ pt = NoCall
        /\ pt' = PassCall("FinishUpload", id, <<>>, FinishUploadResult(caps, b))
        /\ PassFrame

\* ConcatUploads that forgets the partial uploads it has concatenated
Store_ConcatUploadsUntrack ==
    \E dest \in Ids, partials \in PartialLists, b \in ErrorResults :
        LET r == ConcatUploadsResult(caps, b)
            gone == IF r.forwarded /\ r.err = nil
                    THEN {partials[i] : i \in 1..Len(partials)} ELSE {}
            u == [k \in DOMAIN uploads \ gone |-> uploads[k]]
        IN /\ pt = NoCall
           /\ pt' = PassCall("ConcatUploads", dest, partials, r)
           /\ uploads' = u
           /\ usedSize' = Sum(u)
           /\ UNCHANGED <<caps, mutex, backend, pc, locals, pre, calls, lockerVars, handlerVars>>

Store_ConcatUploads ==
    \E dest \in Ids, partials \in PartialLists, b \in ErrorResults :
        /\ pt = NoCall
        /\ pt' = PassCall("ConcatUploads", dest, partials, ConcatUploadsResult(caps, b))
        /\ PassFrame

\* the caller takes the result
Store_Return ==
    /\ pt # NoCall
    /\ pt' = NoCall
    /\ PassFrame

NextPass ==
    \/ Store_GetReader
    \/ Store_LockUpload
    \/ Store_UnlockUpload
    \/ Store_FinishUpload
    \/ Store_ConcatUploads
    \/ Store_Return

\* the ledgers LimitedStore can hold between two calls: what fits the
\* capacity, or a single upload of any size
QuiescentLedgers ==
    {u \in UNION {[S -> Sizes] : S \in SUBSET Ids} :
        Sum(u) <= StoreSize \/ Cardinality(DOMAIN u) = 1}

\* a store between two calls, around a data store with any of the optional
\* interfaces
InitSpecPass ==
    /\ uploads \in QuiescentLedgers
    /\ usedSize = Sum(uploads)
    /\ backend = DOMAIN uploads
    /\ mutex = NoProc
    /\ pc = [p \in Procs |-> "idle"]
    /\ info = [p \in Procs |-> 0]
    /\ tid = [p \in Procs |-> NoId]
    /\ sortedUploads = [p \in Procs |-> <<>>]
    /\ idx = [p \in Procs |-> 0]
    /\ err = [p \in Procs |-> nil]
    /\ ret = [p \in Procs |-> NoId]
    /\ pre = [p \in Procs |-> NoPre]
    /\ calls = [p \in Procs |-> <<>>]
    /\ InitLocker
    /\ caps \in SUBSET Capabilities
    /\ pt = NoCall
    /\ InitHandler

SpecPass == InitSpecPass /\ [][NextPass]_vars

\* ------------------------------------------------------------ Handler

\* the optional interfaces of Config.DataStore that the handler probes
HandlerCaps == {"TerminaterDataStore", "GetReaderDataStore", "ConcaterDataStore"}

Methods == {"OPTIONS", "POST", "HEAD", "PATCH", "DELETE", "GET"}

\* the Tus-Resumable header of a request: missing, the supported one, another
NoVersion == ""
SupportedVersion == "1.0.0"
Versions == {NoVersion, SupportedVersion, "foo"}

StatusNoContent == "204"
StatusPreconditionFailed == "412"
Routed == "routed"
NotRouted == "not routed"

\* Config.MaxSize; zero stands for no limit
NoLimit == 0
TestMaxSize == 400
MaxSizes == {NoLimit, TestMaxSize}

NoHandler == [built |-> FALSE, err |-> nil]
FailedHandler == [built |-> FALSE, err |-> "ErrConfig"]
NoRequest == [method |-> "none"]
NoResponse == [code |-> "none"]

\* every method routed, whatever the data store implements
RoutesUngated(c) == {"POST", "HEAD", "PATCH", "DELETE", "GET"}

\* the routes NewHandler adds to the mux for a data store with interfaces c
Routes(c) ==
    {"POST", "HEAD", "PATCH"}
        \cup (IF "TerminaterDataStore" \in c THEN {"DELETE"} ELSE {})
        \cup (IF "GetReaderDataStore" \in c THEN {"GET"} ELSE {})

\* the extensions the handler announces
Extensions(c) ==
    {"creation"}
        \cup (IF "TerminaterDataStore" \in c THEN {"termination"} ELSE {})
        \cup (IF "ConcaterDataStore" \in c THEN {"concatenation"} ELSE {})

\* the handler function the mux calls for a method
HandlerOf(m) ==
    CASE m = "POST" -> "PostFile"
      [] m = "HEAD" -> "HeadFile"
      [] m = "PATCH" -> "PatchFile"
      [] m = "DELETE" -> "DelFile"
      [] m = "GET" -> "GetFile"

\* the mux: the handler function of a routed method is called and reaches
\* the data store; any other request is answered by the mux itself
mux(h, r) ==
    IF r.method \in h.routes
    THEN [code |-> Routed, op |-> HandlerOf(r.method), version |-> {}, extensions |-> {}, maxSize |-> {}]
    ELSE [code |-> NotRouted, op |-> "none", version |-> {}, extensions |-> {}, maxSize |-> {}]

\* the answer to OPTIONS
Discovery(h) ==
    [code |-> StatusNoContent, op |-> "none", version |-> {SupportedVersion},
     extensions |-> Extensions(h.store),
     maxSize |-> IF h.maxSize > NoLimit THEN {h.maxSize} ELSE {}]

\* handler.Middleware(mux): discovery, then the version check, then the mux
Middleware(h, r) ==
    IF r.method = "OPTIONS" THEN Discovery(h)
    ELSE IF r.version # SupportedVersion
         THEN [code |-> StatusPreconditionFailed, op |-> "none", version |-> {}, extensions |-> {}, maxSize |-> {}]
         ELSE mux(h, r)

\* NewHandler(config): NewUnroutedHandler succeeded
NewHandler ==
    /\ ~handler.built
    /\ handler' = [built |-> TRUE, err |-> nil, store |-> config.DataStore,
                   maxSize |-> config.MaxSize, routes |-> Routes(config.DataStore)]
    /\ UNCHANGED <<config, req, resp, storeVars, lockerVars, passVars>>

\* NewHandler(config): NewUnroutedHandler failed, return nil, err
NewHandler_Error ==
    /\ ~handler.built
    /\ handler' = FailedHandler
    /\ UNCHANGED <<config, req, resp, storeVars, lockerVars, passVars>>

\* the caller puts another data store into its Config
SwapDataStore ==
    /\ \E c \in SUBSET HandlerCaps :
        /\ c # config.DataStore
        /\ config' = [config EXCEPT !.DataStore = c]
    /\ UNCHANGED <<handler, req, resp, storeVars, lockerVars, passVars>>

\* ServeHTTP with the mux called directly
ServeHTTPNoMiddleware ==
    /\ handler.built
    /\ \E m \in Methods, v \in Versions :
        LET r == [method |-> m, version |-> v]
        IN /\ req' = r
           /\ resp' = mux(handler, r)
    /\ UNCHANGED <<config, handler, storeVars, lockerVars, passVars>>

\* Handler.ServeHTTP: rHandler.routeHandler.ServeHTTP(w, r)
ServeHTTP ==
    /\ handler.built
    /\ \E m \in Methods, v \in Versions :
        LET r == [method |-> m, version |-> v]
        IN /\ req' = r
           /\ resp' = Middleware(handler, r)
    /\ UNCHANGED <<config, handler, storeVars, lockerVars, passVars>>

NextHandler ==
    \/ NewHandler
    \/ NewHandler_Error
    \/ SwapDataStore
    \/ ServeHTTP

\* any Config; no handler yet
InitSpecHandler ==
    /\ InitStore
    /\ InitLocker
    /\ InitPass
    /\ config \in [DataStore : SUBSET HandlerCaps, MaxSize : MaxSizes]
    /\ handler = NoHandler
    /\ req = NoRequest
    /\ resp = NoResponse

SpecHandler == InitSpecHandler /\ [][NextHandler]_vars

\* ------------------------------------------------------------ properties

InNewUpload(p) ==
    pc[p] \in {"nu_ensure", "nu_loop", "nu_recheck", "nu_create", "nu_record", "nu_ret"}

AllOk(cs) == \A i \in 1..Len(cs) : cs[i].ok

\* the ids whose Terminate succeeded among the data store calls cs
Evicted(cs) == {cs[i].id : i \in {j \in 1..Len(cs) : cs[j].op = "Terminate" /\ cs[j].ok}}

\* the entries of u whose key is in S
Only(u, S) == [k \in DOMAIN u \cap S |-> u[k]]

CreateFailed(cs) ==
    Len(cs) > 0 /\ cs[Len(cs)].op = "NewUpload" /\ ~cs[Len(cs)].ok

\* C1: in every state in which no call is inside its critical section (the
\* mutex is free), usedSize is the sum of the sizes recorded in uploads.
C1_CapacityAccounting == mutex = NoProc => usedSize = Sum(uploads)

C1_Witness ==
    /\ mutex = NoProc
    /\ Cardinality(DOMAIN uploads) >= 2
    /\ usedSize = StoreSize
    /\ \E k \in DOMAIN uploads : uploads[k] > 0

\* C2: no two goroutines hold the lock of one id: of the LockUpload(id) calls
\* with no UnlockUpload(id) in between, at most one has returned nil.
C2_MutualExclusion ==
    \A id \in Ids : Cardinality({p \in Procs : <<p, id>> \in holders}) <= 1

\* C3: whenever the eviction loop of a NewUpload call hands an id to the data
\* store's Terminate, that id is tracked and its recorded size is at least the
\* recorded size of every upload tracked at that moment.
C3_EvictionOrder ==
    [][\A p \in Procs :
        (pc[p] = "nu_loop" /\ Len(calls'[p]) = Len(calls[p]) + 1) =>
            LET c == calls'[p][Len(calls'[p])]
            IN /\ c.op = "Terminate"
               /\ c.id \in DOMAIN uploads
               /\ \A k \in DOMAIN uploads : uploads[c.id] >= uploads[k]]_vars

C3_Witness ==
    \E p \in Procs :
        /\ pc[p] = "nu_recheck"
        /\ Len(calls[p]) = 2
        /\ AllOk(calls[p])
        /\ pre[p].uploads[calls[p][1].id] > pre[p].uploads[calls[p][2].id]
        /\ \E k \in DOMAIN uploads : uploads[k] < pre[p].uploads[calls[p][2].id]

\* C4: the eviction loop terminates a further upload only while
\* usedSize + size > StoreSize, and it ends with ensureSpace returning nil only
\* when usedSize + size <= StoreSize or no tracked upload is left.
C4_EvictionEarlyExit ==
    \A p \in Procs :
        /\ (pc[p] = "nu_loop" /\ idx[p] <= Len(sortedUploads[p]))
              => usedSize + info[p] > StoreSize
        /\ pc[p] = "nu_create"
              => (usedSize + info[p] <= StoreSize \/ DOMAIN uploads = {})

C4_Witness ==
    \E p \in Procs :
        /\ pc[p] = "nu_create"
        /\ Len(calls[p]) >= 1
        /\ idx[p] < Len(sortedUploads[p])
        /\ usedSize + info[p] = StoreSize

\* C5: a NewUpload call in which no data store call failed returns nil and the
\* id the data store gave, and has recorded that id with the requested size,
\* also when the store is then over its capacity.
C5_BestEffortCreation ==
    \A p \in Procs :
        (pc[p] = "nu_ret" /\ AllOk(calls[p])) =>
            /\ err[p] = nil
            /\ calls[p] # <<>>
            /\ calls[p][Len(calls[p])] = Call("NewUpload", ret[p], TRUE)
            /\ ret[p] \in DOMAIN uploads
            /\ uploads[ret[p]] = info[p]

C5_Witness ==
    \E p \in Procs :
        /\ pc[p] = "nu_ret"
        /\ err[p] = nil
        /\ Len(calls[p]) >= 2
        /\ DOMAIN uploads = {ret[p]}
        /\ usedSize > StoreSize

\* C7 as claimed: when the data store's NewUpload fails, NewUpload returns
\* that error and uploads and usedSize are what they were when the call began.
C7_FailureLeavesLedgerAsBefore ==
    \A p \in Procs :
        (pc[p] = "nu_ret" /\ CreateFailed(calls[p])) =>
            /\ err[p] = ErrNewUpload
            /\ uploads = pre[p].uploads
            /\ usedSize = pre[p].usedSize

\* C7: when the data store's NewUpload fails, NewUpload returns that error and
\* the new upload gets no credit: uploads and usedSize are what they were when
\* the call began less the uploads its eviction loop terminated (so unchanged
\* when the loop terminated none).
C7_FailureGivesNoCredit ==
    \A p \in Procs :
        (pc[p] = "nu_ret" /\ CreateFailed(calls[p])) =>
            LET gone == Evicted(calls[p])
            IN /\ err[p] = ErrNewUpload
               /\ gone \subseteq DOMAIN pre[p].uploads
               /\ uploads = Only(pre[p].uploads, DOMAIN pre[p].uploads \ gone)
               /\ usedSize = pre[p].usedSize - Sum(Only(pre[p].uploads, gone))

C7_Witness ==
    \E p \in Procs :
        /\ pc[p] = "nu_ret"
        /\ CreateFailed(calls[p])
        /\ Evicted(calls[p]) # {}
        /\ pre[p].usedSize > usedSize

\* C8: a failed Terminate of the eviction loop is the last data store call of
\* the NewUpload call (no further Terminate, no NewUpload), the call returns
\* that error, the failed upload stays tracked, and uploads and usedSize are
\* what they were when the call began less the uploads terminated before.
C8_EvictionFailureAborts ==
    \A p \in Procs :
        InNewUpload(p) =>
            \A i \in 1..Len(calls[p]) :
                (calls[p][i].op = "Terminate" /\ ~calls[p][i].ok) =>
                    LET gone == Evicted(calls[p])
                    IN /\ i = Len(calls[p])
                       /\ pc[p] = "nu_ret"
                       /\ err[p] = ErrTerminate
                       /\ calls[p][i].id \in DOMAIN uploads
                       /\ gone \subseteq DOMAIN pre[p].uploads
                       /\ uploads = Only(pre[p].uploads, DOMAIN pre[p].uploads \ gone)
                       /\ usedSize = pre[p].usedSize - Sum(Only(pre[p].uploads, gone))

C8_Witness ==
    \E p \in Procs :
        /\ pc[p] = "nu_ret"
        /\ err[p] = ErrTerminate
        /\ Len(calls[p]) = 2
        /\ calls[p][1].ok
        /\ pre[p].uploads[calls[p][1].id] > 0
        /\ Cardinality(DOMAIN uploads) >= 2

\* C9: Terminate(id) of a tracked id: when the data store's Terminate succeeds
\* it returns nil, id is no longer tracked, every other entry is as before and
\* usedSize is lower by id's recorded size; when it fails, Terminate returns
\* the error and uploads and usedSize are as before.
C9_TerminateContract ==
    \A p \in Procs :
        (pc[p] = "t_ret" /\ tid[p] \in DOMAIN pre[p].uploads) =>
            IF calls[p][1].ok
            THEN /\ err[p] = nil
                 /\ DOMAIN uploads = DOMAIN pre[p].uploads \ {tid[p]}
                 /\ \A k \in DOMAIN uploads : uploads[k] = pre[p].uploads[k]
                 /\ usedSize = pre[p].usedSize - pre[p].uploads[tid[p]]
            ELSE /\ err[p] = ErrTerminate
                 /\ uploads = pre[p].uploads
                 /\ usedSize = pre[p].usedSize

C9_Witness ==
    \E p \in Procs :
        /\ pc[p] = "t_ret"
        /\ tid[p] \in DOMAIN pre[p].uploads
        /\ err[p] = nil
        /\ pre[p].uploads[tid[p]] > 0
        /\ DOMAIN uploads # {}

\* C10: Terminate(id) of an id that is not tracked returns nil when the data
\* store's Terminate succeeds, and leaves usedSize and every entry unchanged.
C10_TerminateUntracked ==
    \A p \in Procs :
        (pc[p] = "t_ret" /\ tid[p] \notin DOMAIN pre[p].uploads /\ calls[p][1].ok) =>
            /\ err[p] = nil
            /\ usedSize = pre[p].usedSize
            /\ uploads = pre[p].uploads

C10_Witness ==
    \E p \in Procs :
        /\ pc[p] = "t_ret"
        /\ tid[p] \notin DOMAIN pre[p].uploads
        /\ calls[p][1].ok
        /\ err[p] = nil
        /\ usedSize > 0

\* C6: LockUpload(id) never waits; its lookup leaves the lock table alone and,
\* when id is in the table, ends the call with ErrFileLocked; only when id is
\* not in the table does the call go on to add id and return nil.
C6_LockFailFast ==
    /\ [][\A p \in Procs :
            /\ (lpc[p] = "l_check" /\ lpc'[p] # "l_check") =>
                  /\ locks' = locks
                  /\ IF lid[p] \in locks
                     THEN lpc'[p] = "l_ret" /\ lerr'[p] = ErrFileLocked
                     ELSE lpc'[p] = "l_set"
            /\ (lpc[p] = "l_set" /\ lpc'[p] # "l_set") =>
                  /\ locks' = locks \cup {lid[p]}
                  /\ lerr'[p] = nil
                  /\ lpc'[p] = "l_ret"]_vars
    /\ [](\A p \in Procs :
            (lpc[p] \in {"l_check", "l_set"} /\ ~crashed) =>
                ENABLED (LockUpload_Check(p) \/ LockUpload_Set(p)))

C6_Witness ==
    \E p \in Procs :
        /\ lpc[p] = "l_ret"
        /\ lerr[p] = ErrFileLocked
        /\ found[p]
        /\ lid[p] \in locks
        /\ \E q \in Procs : <<q, lid[p]>> \in holders

\* ------------------------------------------------------------ properties (continued)

InCritical(p) ==
    pc[p] \in {"nu_ensure", "nu_loop", "nu_recheck", "nu_create", "nu_record",
               "nu_ret", "t_terminate", "t_ret"}

\* the ledger u, used after the data store calls cs of one call, each
\* successful Terminate removing its upload and a successful NewUpload adding
\* the new one with the requested size
RECURSIVE Replay(_, _, _, _)
Replay(u, used, cs, size) ==
    IF cs = <<>> THEN [uploads |-> u, usedSize |-> used]
    ELSE LET c == Head(cs)
         IN IF ~c.ok THEN Replay(u, used, Tail(cs), size)
            ELSE IF c.op = "Terminate"
            THEN Replay(Delete(u, c.id), used - SizeOf(u, c.id), Tail(cs), size)
            ELSE Replay(Put(u, c.id, size), used + size, Tail(cs), size)

\* C14: at most one call is inside its critical section and it is the holder
\* of the mutex; a step that changes uploads or usedSize is a step of the
\* holder, which keeps the mutex through it, and no other goroutine moves in
\* that step; when a call returns, the ledger is the ledger found when the
\* mutex was taken with the call's own data store calls applied to it in
\* order, so the calls take effect one after the other in the order in which
\* they took the mutex.
C14_Linearization ==
    /\ [](\A p \in Procs : InCritical(p) <=> mutex = p)
    /\ [](\A p \in Procs :
            pc[p] \in {"nu_ret", "t_ret"} =>
                LET r == Replay(pre[p].uploads, pre[p].usedSize, calls[p], info[p])
                IN uploads = r.uploads /\ usedSize = r.usedSize)
    /\ [][ledger' # ledger =>
            /\ mutex \in Procs
            /\ mutex' = mutex
            /\ pc'[mutex] # pc[mutex]
            /\ \A q \in Procs \ {mutex} : pc'[q] = pc[q]]_vars
    /\ [][\A p \in Procs :
            (mutex = p /\ mutex' = p) => pre'[p] = pre[p]]_vars

C14_Witness ==
    \E p \in Procs : \E q \in Procs \ {p} :
        /\ pc[p] = "nu_recheck"
        /\ pc[q] = "t_lock"
        /\ tid[q] \in DOMAIN uploads
        /\ uploads # pre[p].uploads

\* C15: a NewUpload call that finds usedSize + size <= StoreSize when it takes
\* the mutex makes no Terminate call and, until it records the new upload,
\* leaves the ledger as found; when it returns nil the ledger is the one found
\* with the new id added at the requested size and usedSize raised by size.
C15_NoEvictionWhenFits ==
    \A p \in Procs :
        (InNewUpload(p) /\ pre[p].usedSize + info[p] <= StoreSize) =>
            /\ \A i \in 1..Len(calls[p]) : calls[p][i].op # "Terminate"
            /\ \A k \in DOMAIN pre[p].uploads :
                  k \in DOMAIN uploads /\ uploads[k] = pre[p].uploads[k]
            /\ IF pc[p] = "nu_ret" /\ err[p] = nil
               THEN /\ ret[p] \notin DOMAIN pre[p].uploads
                    /\ DOMAIN uploads = DOMAIN pre[p].uploads \cup {ret[p]}
                    /\ uploads[ret[p]] = info[p]
                    /\ usedSize = pre[p].usedSize + info[p]
               ELSE uploads = pre[p].uploads /\ usedSize = pre[p].usedSize

C15_Witness ==
    \E p \in Procs :
        /\ pc[p] = "nu_ret"
        /\ err[p] = nil
        /\ pre[p].uploads # EmptyMap
        /\ info[p] > 0
        /\ pre[p].usedSize + info[p] = StoreSize

\* C19: when NewUpload returns nil, usedSize <= StoreSize or the new upload
\* is the only tracked upload.
C19_OverCapacityOnlyAlone ==
    \A p \in Procs :
        (pc[p] = "nu_ret" /\ err[p] = nil) =>
            (usedSize <= StoreSize \/ DOMAIN uploads = {ret[p]})

C19_Witness ==
    \E p \in Procs :
        /\ pc[p] = "nu_ret"
        /\ err[p] = nil
        /\ Evicted(calls[p]) # {}
        /\ Cardinality(DOMAIN uploads) >= 2
        /\ usedSize = StoreSize

\* the sizes evicted from ledger u, used for a request of size, largest first
\* until the request fits, read off the sizes alone
RECURSIVE EvictSizes(_, _, _)
EvictSizes(u, used, size) ==
    IF used + size <= StoreSize \/ DOMAIN u = {} THEN <<>>
    ELSE LET k == CHOOSE x \in DOMAIN u : \A y \in DOMAIN u : u[x] >= u[y]
         IN <<u[k]>> \o EvictSizes(Delete(u, k), used - u[k], size)

RECURSIVE SumSeq(_)
SumSeq(s) == IF s = <<>> THEN 0 ELSE Head(s) + SumSeq(Tail(s))

\* C20: when ensureSpace has returned nil, the sizes of the uploads it evicted,
\* in order, and the usedSize it leaves are determined by the ledger found and
\* the requested size alone, whatever order the sort gave equal sizes: the
\* number evicted, their sizes and usedSize are the same for every such order.
C20_TieBreakingIrrelevant ==
    \A p \in Procs :
        pc[p] = "nu_create" =>
            LET sizes == [i \in 1..Len(calls[p]) |-> pre[p].uploads[calls[p][i].id]]
                want  == EvictSizes(pre[p].uploads, pre[p].usedSize, info[p])
            IN /\ sizes = want
               /\ usedSize = pre[p].usedSize - SumSeq(want)

C20_Witness ==
    \E p \in Procs :
        /\ pc[p] = "nu_create"
        /\ Len(calls[p]) >= 1
        /\ \E k \in DOMAIN uploads :
              uploads[k] = pre[p].uploads[calls[p][Len(calls[p])].id]

\* the number of steps a goroutine inside a call has left at most
Rank(p) ==
    CASE pc[p] = "nu_ensure"   -> 2 * Cardinality(DOMAIN uploads) + 5
      [] pc[p] = "nu_loop"     -> 2 * (Len(sortedUploads[p]) + 1 - idx[p]) + 4
      [] pc[p] = "nu_recheck"  -> 2 * (Len(sortedUploads[p]) - idx[p]) + 5
      [] pc[p] = "nu_create"   -> 3
      [] pc[p] = "nu_record"   -> 2
      [] pc[p] = "nu_ret"      -> 1
      [] pc[p] = "t_terminate" -> 2
      [] pc[p] = "t_ret"       -> 1
      [] OTHER                 -> 0

\* C18: the eviction loop of a NewUpload call walks a copy of the uploads
\* tracked when it began: its Terminate calls follow that copy entry by entry,
\* so each is for an upload of the copy, no upload gets two, and there are at
\* most as many as were tracked; and the call completes and releases the
\* mutex: the holder of the mutex always has a step to take, each of its steps
\* lowers its number of steps left, which is never negative and at most
\* 2 * NumIds + 5, and the step taken with one step left frees the mutex.
C18_BoundedEviction ==
    /\ [](\A p \in Procs :
            InNewUpload(p) =>
                LET s == sortedUploads[p]
                    n == Len(calls[p])
                    terms == {i \in 1..n : calls[p][i].op = "Terminate"}
                IN /\ s # <<>> =>
                         /\ {s[i].key : i \in 1..Len(s)} = DOMAIN pre[p].uploads
                         /\ \A i \in 1..Len(s) : s[i].value = pre[p].uploads[s[i].key]
                   /\ Cardinality(terms) <= Cardinality(DOMAIN pre[p].uploads)
                   /\ \A i \in terms : i <= Len(s) /\ calls[p][i].id = s[i].key
                   /\ \A i \in terms : \A j \in terms :
                         i # j => calls[p][i].id # calls[p][j].id)
    /\ [](\A p \in Procs :
            /\ Rank(p) \in 0..(2 * NumIds + 5)
            /\ mutex = p <=> Rank(p) > 0
            /\ mutex = p => ENABLED Running(p))
    /\ [][\A p \in Procs :
            (mutex = p /\ pc'[p] # pc[p]) =>
                /\ Rank(p)' < Rank(p)
                /\ Rank(p) = 1 => mutex' = NoProc]_vars

\* C18, as a property of the fair behaviours: a goroutine that has taken the
\* mutex releases it again.
C18_MutexReleased == \A p \in Procs : (mutex = p) ~> (mutex = NoProc)

C18_Witness ==
    \E p \in Procs : \E q \in Procs \ {p} :
        /\ pc[p] = "nu_ret"
        /\ Len(calls[p]) = Cardinality(DOMAIN pre[p].uploads) + 1
        /\ Len(calls[p]) >= 3
        /\ pc[q] \in {"nu_lock", "t_lock"}

\* C16: UnlockUpload(id) never waits and returns nil whatever the lock table
\* holds and whoever locked id; its step takes id out of the table and leaves
\* every other id alone, so it changes nothing when id is not in the table;
\* after it nobody holds id, and a LockUpload(id) whose lookup comes next
\* finds id free.
C16_UnlockUnconditional ==
    /\ [][\A p \in Procs :
            (lpc[p] = "u_delete" /\ lpc'[p] # "u_delete") =>
                /\ lpc'[p] = "u_ret"
                /\ lerr'[p] = nil
                /\ lid[p] \notin locks'
                /\ \A k \in Ids \ {lid[p]} : k \in locks' <=> k \in locks
                /\ lid[p] \notin locks => locks' = locks
                /\ \A q \in Procs : <<q, lid[p]>> \notin holders'
                /\ \A q \in Procs :
                      (lpc'[q] = "l_check" /\ lid'[q] = lid[p]) =>
                          ~isLocked(locks', lid'[q])]_vars
    /\ [](\A p \in Procs :
            (lpc[p] = "u_delete" /\ ~crashed) => ENABLED UnlockUpload_Delete(p))

C16_Witness ==
    \E p \in Procs : \E q \in Procs \ {p} :
        /\ lpc[p] = "u_ret"
        /\ lerr[p] = nil
        /\ lid[p] \notin locks
        /\ locks # {}
        /\ lpc[q] = "l_set"
        /\ lid[q] = lid[p]
        /\ \A r \in Procs : <<r, lid[p]>> \notin holders

\* the interface a pass-through asserts on the wrapped data store
CapOf(op) ==
    CASE op = "GetReader" -> "GetReaderDataStore"
      [] op = "LockUpload" -> "LockerDataStore"
      [] op = "UnlockUpload" -> "LockerDataStore"
      [] op = "FinishUpload" -> "FinisherDataStore"
      [] op = "ConcatUploads" -> "ConcaterDataStore"

\* C11: without the capability GetReader and ConcatUploads return
\* ErrNotImplemented and LockUpload, UnlockUpload and FinishUpload return nil,
\* none of them calling the wrapped data store; with the capability the call
\* is forwarded and what it returns is exactly what the data store returned.
C11_CapabilityAbsentOutcomes ==
    pt # NoCall =>
        IF CapOf(pt.op) \in caps
        THEN /\ pt.forwarded
             /\ pt.sent \in (IF pt.op = "GetReader" THEN ReaderResults ELSE ErrorResults)
             /\ pt.val = pt.sent.val
             /\ pt.err = pt.sent.err
        ELSE /\ ~pt.forwarded
             /\ pt.sent = NotForwarded
             /\ pt.val = NoReader
             /\ pt.op \in {"GetReader", "ConcatUploads"} => pt.err = ErrNotImplemented
             /\ pt.op \in {"LockUpload", "UnlockUpload", "FinishUpload"} => pt.err = nil

\* LockUpload was called on a store whose data store is no locker but can
\* hand out readers
C11_Witness ==
    /\ pt # NoCall
    /\ pt.op = "LockUpload"
    /\ "LockerDataStore" \notin caps
    /\ "GetReaderDataStore" \in caps
    /\ pt.err = nil

\* C17: GetReader, LockUpload, UnlockUpload, FinishUpload and ConcatUploads
\* leave the uploads map and usedSize as they were, whatever the data store
\* returns and whether or not it has the capability.
C17_PassThroughFrame ==
    [][(pt' # pt) => (uploads' = uploads /\ usedSize' = usedSize)]_vars

\* a forwarded ConcatUploads of a tracked upload of positive size succeeded
C17_Witness ==
    /\ pt # NoCall
    /\ pt.op = "ConcatUploads"
    /\ pt.forwarded
    /\ pt.err = nil
    /\ Len(pt.partials) = 1
    /\ pt.partials[1] \in DOMAIN uploads
    /\ uploads[pt.partials[1]] > 0
    /\ usedSize = Sum(uploads)

\* C12: a handler built by NewHandler routes POST, HEAD and PATCH, routes
\* DELETE exactly if the data store it was built with is a
\* TerminaterDataStore and GET exactly if it is a GetReaderDataStore; the
\* routes never change afterwards, and whether a request with the supported
\* version reaches a handler function depends only on them, even after the
\* caller's Config got another data store.
C12_CapabilityGatedRouting ==
    /\ [](handler.built =>
            /\ {"POST", "HEAD", "PATCH"} \subseteq handler.routes
            /\ handler.routes \subseteq {"POST", "HEAD", "PATCH", "DELETE", "GET"}
            /\ "DELETE" \in handler.routes <=> "TerminaterDataStore" \in handler.store
            /\ "GET" \in handler.routes <=> "GetReaderDataStore" \in handler.store)
    /\ []((resp # NoResponse /\ req.method # "OPTIONS" /\ req.version = SupportedVersion) =>
            /\ req.method \in {"POST", "HEAD", "PATCH"} => resp.code = Routed
            /\ req.method = "DELETE" =>
                (resp.code = Routed <=> "TerminaterDataStore" \in handler.store)
            /\ req.method = "GET" =>
                (resp.code = Routed <=> "GetReaderDataStore" \in handler.store)
            /\ resp.code \in {Routed, NotRouted}
            /\ resp.code = Routed => resp.op = HandlerOf(req.method))
    /\ [][handler.built =>
            /\ handler'.built
            /\ handler'.routes = handler.routes
            /\ handler'.store = handler.store]_vars
    /\ [][(~handler.built /\ handler'.built) => handler'.store = config.DataStore]_vars

\* DELETE was not routed by a handler built without a TerminaterDataStore,
\* although the caller's Config holds one by now
C12_Witness ==
    /\ handler.built
    /\ "TerminaterDataStore" \notin handler.store
    /\ "TerminaterDataStore" \in config.DataStore
    /\ "GetReaderDataStore" \in handler.store
    /\ req = [method |-> "DELETE", version |-> SupportedVersion]
    /\ resp.code = NotRouted

\* C13: a request is answered with StatusPreconditionFailed exactly if it is
\* not OPTIONS and its Tus-Resumable header is missing or differs from
\* "1.0.0"; such a request reaches no handler function and so no data store;
\* OPTIONS is answered with StatusNoContent whatever its version, naming the
\* supported version, the extensions and Config.MaxSize.
C13_VersionPrecondition ==
    resp # NoResponse =>
        /\ resp.code = StatusPreconditionFailed <=>
                (req.method # "OPTIONS" /\ req.version # SupportedVersion)
        /\ resp.code = StatusPreconditionFailed => resp.op = "none"
        /\ req.method = "OPTIONS" =>
            /\ resp.code = StatusNoContent
            /\ resp.op = "none"
            /\ resp.version = {SupportedVersion}
            /\ resp.extensions = Extensions(handler.store)
            /\ "creation" \in resp.extensions
            /\ resp.maxSize = (IF handler.maxSize > NoLimit THEN {handler.maxSize} ELSE {})

\* TestOptions, second request: POST with Tus-Resumable "foo" to a handler
\* built from Config{MaxSize: 400}
C13_Witness ==
    /\ handler.built
    /\ handler.store = {}
    /\ handler.maxSize = TestMaxSize
    /\ req = [method |-> "POST", version |-> "foo"]
    /\ resp.code = StatusPreconditionFailed
    /\ resp.op = "none"

====
